---------------------------- MODULE Spec2Model ----------------------------
(* A model of app/agent.py: the memory store (add_memory, recall_memory),  *)
(* the document search (search_docs), the query rephraser, the generation  *)
(* client (query_ollama), the context builder and the conversation loop.   *)
(*                                                                         *)
(* A Python str is a sequence of pieces whose concatenation is the str.    *)
(* Text that comes from outside (input lines, stream tokens, documents) is *)
(* one piece per character; the literal segments of the code's f-strings   *)
(* are one piece each.                                                     *)
EXTENDS Integers, Sequences, FiniteSets, TLC

VARIABLES
    memory_collection,     \* the Memory Store: the records, in insertion order
    clock,                 \* datetime.now(), counted in add_memory calls
    conversation_history,  \* the list of (query, answer) pairs
    callLog,               \* history variable: this process's add_memory calls
    turnLog,               \* history variable: every completed turn so far
    last,                  \* the last operation: its arguments and its results
    pc                     \* "loop" in the while-loop, "exited" after break,
                           \* "crashed" after an uncaught exception

vars == <<memory_collection, clock, conversation_history, callLog, turnLog, last, pc>>

-----------------------------------------------------------------------------
(* Configuration                                                           *)

MAX_CONTEXT_DOCS == 5
MEMORY_SIZE == 3
DEFAULT_TOP_K == 3
USER_ID == <<"onkar">>
ID_HASH_LEN == 8
MD5_HEX_LEN == 32

\* Bounds of the model
MaxCalls == 3
MaxTurns == 2
MaxHistory == 5
MaxDocs == 2
MaxPromptLen == 5

-----------------------------------------------------------------------------
(* Strings                                                                 *)

Whitespace == {" ", "\n"}

EmptyStr == << >>

RECURSIVE lstrip(_)
lstrip(s) ==
    IF s = << >> THEN << >>
    ELSE IF Head(s) \in Whitespace THEN lstrip(Tail(s)) ELSE s

RECURSIVE rstrip(_)
rstrip(s) ==
    IF s = << >> THEN << >>
    ELSE IF s[Len(s)] \in Whitespace THEN rstrip(SubSeq(s, 1, Len(s) - 1)) ELSE s

\* str.strip()
strip(s) == rstrip(lstrip(s))

\* len(str.split()): the number of maximal runs of non-whitespace
RECURSIVE CountTokens(_, _)
CountTokens(s, inToken) ==
    IF s = << >> THEN 0
    ELSE IF Head(s) \in Whitespace THEN CountTokens(Tail(s), FALSE)
    ELSE (IF inToken THEN 0 ELSE 1) + CountTokens(Tail(s), TRUE)

SplitLen(s) == CountTokens(s, FALSE)

\* sep.join(list)
RECURSIVE Join(_, _)
Join(sep, list) ==
    IF list = << >> THEN << >>
    ELSE IF Len(list) = 1 THEN list[1]
    ELSE list[1] \o sep \o Join(sep, Tail(list))

\* "".join(list): the concatenation of the stream's tokens
Concat(list) == Join(<< >>, list)

-----------------------------------------------------------------------------
(* hash_text                                                               *)

\* MD5 itself is not computed here.  hash_text is modelled by a digest with
\* MD5's interface (text -> MD5_HEX_LEN hex digits, a function of the text
\* alone) and with the one property of MD5 the store's identities rest on:
\* the digest as a whole separates the texts of the model, while its first
\* ID_HASH_LEN digits, 32 bits of it, do not separate all of them.  The
\* first ID_HASH_LEN digits are the hex digits of the sum of the piece
\* codes, the remaining digits spell the codes one by one.
PieceCodes == <<"a", "b", " ", "\n", "[ERROR] Ollama returned ", "500",
                "[ERROR] Ollama request failed: ", "timeout">>

Code(p) ==
    IF \E i \in 1..Len(PieceCodes) : PieceCodes[i] = p
    THEN CHOOSE i \in 1..Len(PieceCodes) : PieceCodes[i] = p
    ELSE 15

RECURSIVE CodeSum(_)
CodeSum(s) == IF s = << >> THEN 0 ELSE Code(Head(s)) + CodeSum(Tail(s))

RECURSIVE Pow16(_)
Pow16(k) == IF k = 0 THEN 1 ELSE 16 * Pow16(k - 1)

hash_text(text) ==
    [k \in 1..MD5_HEX_LEN |->
        IF k <= ID_HASH_LEN
        THEN (CodeSum(text) \div Pow16(ID_HASH_LEN - k)) % 16
        ELSE IF k - ID_HASH_LEN <= Len(text) THEN Code(text[k - ID_HASH_LEN]) ELSE 0]

HexChars == <<"0", "1", "2", "3", "4", "5", "6", "7",
              "8", "9", "a", "b", "c", "d", "e", "f">>

\* hexdigest(): the digits as characters
HexStr(digits) == [k \in 1..Len(digits) |-> HexChars[digits[k] + 1]]

-----------------------------------------------------------------------------
(* The Memory Store                                                        *)

RoleUser == <<"user">>
RoleAgent == <<"agent">>

\* An identity that leaves the role out
mem_id_without_role(user_id, role, text) ==
    user_id \o <<"_">> \o HexStr(SubSeq(hash_text(text), 1, ID_HASH_LEN))

\* f"{user_id}_{role}_{hash_text(text)[:8]}"
mem_id(user_id, role, text) ==
    user_id \o <<"_">> \o role \o <<"_">> \o HexStr(SubSeq(hash_text(text), 1, ID_HASH_LEN))

\* collection.add: what the store would hold if every write were an insert
add(coll, rec) == Append(coll, rec)

\* collection.upsert: the record with this id is replaced in place, a new id
\* is appended
upsert(coll, rec) ==
    IF \E i \in 1..Len(coll) : coll[i].id = rec.id
    THEN [i \in 1..Len(coll) |-> IF coll[i].id = rec.id THEN rec ELSE coll[i]]
    ELSE Append(coll, rec)

\* add_memory: the collection after the call made at time `now`
add_memory(coll, now, user_id, text, role) ==
    upsert(coll, [id       |-> mem_id(user_id, role, text),
                  document |-> text,
                  metadata |-> [user_id |-> user_id, role |-> role, timestamp |-> now]])

\* A query without a metadata filter: every record is a candidate
WhereAny(coll, user_id) == 1..Len(coll)

\* The records a query with where={"user_id": user_id} may match
WhereUser(coll, user_id) == {i \in 1..Len(coll) : coll[i].metadata.user_id = user_id}

Min(a, b) == IF a < b THEN a ELSE b

\* The candidates, oldest first
RECURSIVE Ascending(_)
Ascending(cands) ==
    IF cands = {} THEN << >>
    ELSE LET m == CHOOSE x \in cands : \A y \in cands : x <= y
         IN <<m>> \o Ascending(cands \ {m})

Reverse(seq) == [k \in 1..Len(seq) |-> seq[Len(seq) + 1 - k]]

\* The rankings of n of the candidates.  The similarity order is the vector
\* store's and any order is possible ("any"); where the stores grow large
\* the model explores two of them, oldest first and newest first ("by_age").
Rankings(cands, n, orders) ==
    IF orders = "any"
    THEN {r \in [1..Min(n, Cardinality(cands)) -> cands] :
            \A i, j \in DOMAIN r : i /= j => r[i] /= r[j]}
    ELSE {SubSeq(Ascending(cands), 1, Min(n, Cardinality(cands))),
          SubSeq(Reverse(Ascending(cands)), 1, Min(n, Cardinality(cands)))}

\* memory_collection.query(query_texts, n_results, where): the outcomes.  A
\* failed query raises.
MemoryQuery(coll, user_id, n_results, orders) ==
    {[raised |-> TRUE, documents |-> << >>]}
    \cup {[raised |-> FALSE, documents |-> [k \in DOMAIN r |-> coll[r[k]].document]] :
            r \in Rankings(WhereUser(coll, user_id), n_results, orders)}

\* A recall_memory without its try/except: the query's failure leaves it
recall_memory_unguarded(outcome) ==
    [raises |-> outcome.raised,
     failed |-> outcome.raised,
     docs   |-> outcome.documents,
     ret    |-> Join(<<"\n">>, outcome.documents)]

\* recall_memory, given the outcome of its query: whether an exception
\* leaves it, the docs it read (line 82) and the string it returns
recall_memory(outcome) ==
    IF outcome.raised
    THEN [raises |-> FALSE, failed |-> TRUE, docs |-> << >>, ret |-> EmptyStr]
    ELSE [raises |-> FALSE, failed |-> FALSE, docs |-> outcome.documents,
          ret |-> Join(<<"\n">>, outcome.documents)]

-----------------------------------------------------------------------------
(* search_docs                                                             *)

\* A match's metadata as the store returns it: None for a record written
\* without metadata, else a dict, with or without the key "source"
MetaNone == [none |-> TRUE, has_source |-> FALSE, source |-> << >>]
MetaEmpty == [none |-> FALSE, has_source |-> FALSE, source |-> << >>]
MetaSource(src) == [none |-> FALSE, has_source |-> TRUE, source |-> src]

AttributeErrorNone == <<"'NoneType' object has no attribute 'get'">>

\* f"[Source: {source}]\n{doc}"
ContextBlock(source, doc) == <<"[Source: ">> \o source \o <<"]\n">> \o doc

\* metadatas[i].get("source", "unknown")
MetaGetSource(meta) == IF meta.has_source THEN meta.source ELSE <<"unknown">>

\* search_docs, given the outcome of static_collection.query: a raised
\* exception with its message, or the documents and metadatas of the one
\* query of the batch.  Every exception inside is caught and turned into the
\* error string: the query's own, and the AttributeError of .get on None.
search_docs(outcome) ==
    IF outcome.raised
    THEN [raises |-> FALSE, failed |-> TRUE,
          ret |-> <<"[ERROR] search_docs failed: ">> \o outcome.error]
    ELSE LET docs == outcome.documents
             metadatas == outcome.metadatas
         IN IF metadatas /= << >> /\ \E i \in 1..Len(docs) : metadatas[i].none
            THEN [raises |-> FALSE, failed |-> TRUE,
                  ret |-> <<"[ERROR] search_docs failed: ">> \o AttributeErrorNone]
            ELSE [raises |-> FALSE, failed |-> FALSE,
                  ret |-> Join(<<"\n\n">>,
                               [i \in 1..Len(docs) |->
                                   ContextBlock(IF metadatas /= << >>
                                                THEN MetaGetSource(metadatas[i])
                                                ELSE <<"unknown">>,
                                                docs[i])])]

-----------------------------------------------------------------------------
(* rephrase_query                                                          *)

\* A rephrase_query that measures the prompt in characters
rephrase_query_by_chars(prompt, outcome) ==
    IF Len(prompt) < 3
    THEN [raises |-> FALSE, posted |-> FALSE, ret |-> prompt]
    ELSE [raises |-> FALSE, posted |-> TRUE,
          ret |-> IF outcome.kind = "response" /\ outcome.ok /\ outcome.has_response
                  THEN strip(outcome.response) ELSE prompt]

\* rephrase_query, given the outcome of its POST: the request raised, or a
\* response came back (ok or not, its JSON with or without "response").
\* `posted` says whether the request was made at all.
rephrase_query(prompt, outcome) ==
    IF SplitLen(prompt) < 3
    THEN [raises |-> FALSE, posted |-> FALSE, ret |-> prompt]
    ELSE [raises |-> FALSE, posted |-> TRUE,
          ret |-> IF outcome.kind = "response" /\ outcome.ok /\ outcome.has_response
                  THEN strip(outcome.response) ELSE prompt]

-----------------------------------------------------------------------------
(* query_ollama                                                            *)

LineEmpty == [kind |-> "empty", response |-> << >>]
LineGarbage == [kind |-> "garbage", response |-> << >>]
LineNoKey == [kind |-> "json", response |-> << >>]
LineToken(tok) == [kind |-> "json", response |-> tok]

\* The tokens of the stream's lines: an empty line and a line that is not
\* JSON are skipped, a JSON object without "response" gives ""
RECURSIVE StreamTokens(_)
StreamTokens(lines) ==
    IF lines = << >> THEN << >>
    ELSE IF Head(lines).kind = "json"
         THEN <<Head(lines).response>> \o StreamTokens(Tail(lines))
         ELSE StreamTokens(Tail(lines))

\* A query_ollama without its try/except around the request
query_ollama_unguarded(outcome) ==
    IF outcome.kind = "status"
    THEN [raises |-> FALSE, ret |-> <<"[ERROR] Ollama returned ", outcome.code>>]
    ELSE IF outcome.kind = "raise" \/ outcome.broken
    THEN [raises |-> TRUE, ret |-> << >>]
    ELSE [raises |-> FALSE, ret |-> strip(Concat(StreamTokens(outcome.lines)))]

\* query_ollama, given the outcome of its streaming POST: the request
\* raised, a status other than 200 came back, or the stream's lines came,
\* cut short by a transport error (broken) or not
query_ollama(outcome) ==
    IF outcome.kind = "raise"
    THEN [raises |-> FALSE, ret |-> <<"[ERROR] Ollama request failed: ">> \o outcome.msg]
    ELSE IF outcome.kind = "status"
    THEN [raises |-> FALSE, ret |-> <<"[ERROR] Ollama returned ", outcome.code>>]
    ELSE IF outcome.broken
    THEN [raises |-> FALSE, ret |-> <<"[ERROR] Ollama request failed: ">> \o outcome.msg]
    ELSE [raises |-> FALSE, ret |-> strip(Concat(StreamTokens(outcome.lines)))]

-----------------------------------------------------------------------------
(* build_context                                                           *)

\* list[:n]
SliceFirst(list, n) == SubSeq(list, 1, Min(n, Len(list)))

\* list[-n:]
SliceLast(list, n) ==
    IF Len(list) <= n THEN list ELSE SubSeq(list, Len(list) - n + 1, Len(list))

\* f"User: {q}\nAgent: {a}"
TurnText(turn) == <<"User: ">> \o turn[1] \o <<"\nAgent: ">> \o turn[2]

\* The short-term section: the last MEMORY_SIZE turns of the history
ShortTerm(history) ==
    Join(<<"\n">>,
         LET recent == SliceLast(history, MEMORY_SIZE)
         IN [i \in 1..Len(recent) |-> TurnText(recent[i])])

\* build_context, given the results of recall_memory and search_docs
build_context(history, long_term, docs) ==
    <<"Short-term:\n">> \o ShortTerm(history)
        \o <<"\n\nLong-term memory:\n">> \o long_term
        \o <<"\n\nDocs:\n">> \o docs

-----------------------------------------------------------------------------
(* The memory interface, called with any arguments                         *)

Users == {USER_ID, <<"onkar", "_", "user">>}
Roles == {RoleUser, RoleAgent}
Texts == {<<"a">>, <<"a", "b">>, <<"b", "a">>}

\* The top_k values recall_memory is called with: one match, and the default
TopKs == {1, DEFAULT_TOP_K}

NoOp == [op |-> "none"]

InitMem ==
    /\ memory_collection = << >>
    /\ clock = 0
    /\ conversation_history = << >>
    /\ callLog = << >>
    /\ turnLog = << >>
    /\ last = NoOp
    /\ pc = "loop"

AddMemory ==
    /\ clock < MaxCalls
    /\ \E u \in Users, r \in Roles, t \in Texts :
        /\ memory_collection' = add_memory(memory_collection, clock + 1, u, t, r)
        /\ clock' = clock + 1
        /\ callLog' = Append(callLog, [user_id |-> u, role |-> r, text |-> t])
        /\ last' = [op |-> "add_memory", user_id |-> u, role |-> r, text |-> t]
    /\ UNCHANGED <<conversation_history, turnLog, pc>>

RecallMemory ==
    /\ \E u \in Users, k \in TopKs :
        \E outcome \in MemoryQuery(memory_collection, u, k, "any") :
            last' = [op |-> "recall_memory", user_id |-> u, top_k |-> k,
                     result |-> recall_memory(outcome)]
    /\ UNCHANGED <<memory_collection, clock, conversation_history, callLog, turnLog, pc>>

NextMem == AddMemory \/ RecallMemory

SpecMem == InitMem /\ [][NextMem]_vars

-----------------------------------------------------------------------------
(* The conversation loop                                                   *)

\* str.lower(), piece by piece
LowerPiece(p) == IF p = "Quit" THEN "quit" ELSE IF p = "EXIT" THEN "exit" ELSE p

lower(s) == [k \in 1..Len(s) |-> LowerPiece(s[k])]

\* The records an earlier run of the agent left in the persistent store
PreviousSession ==
    add_memory(
        add_memory(
            add_memory(<< >>, 1, USER_ID, <<"b">>, RoleUser),
            2, USER_ID, <<"b", "b">>, RoleAgent),
        3, USER_ID, <<"b", " ", "b">>, RoleUser)

\* The state once the module's initialisation has run: the memory
\* collection is the one on disk, empty when it was just created
Init ==
    /\ memory_collection \in {<< >>, PreviousSession}
    /\ clock = Len(memory_collection)
    /\ conversation_history = << >>
    /\ callLog = << >>
    /\ turnLog = << >>
    /\ last = NoOp
    /\ pc = "loop"

\* One pass of the while-loop that breaks: the line is "exit" or "quit"
Exit(lines) ==
    /\ pc = "loop"
    /\ \E line \in lines :
        /\ lower(strip(line)) \in {<<"exit">>, <<"quit">>}
        /\ last' = [op |-> "exit", line |-> line]
    /\ pc' = "exited"
    /\ UNCHANGED <<memory_collection, clock, conversation_history, callLog, turnLog>>

\* One pass that continues at once: the line is empty once stripped
Skip(lines) ==
    /\ pc = "loop"
    /\ \E line \in lines :
        /\ strip(line) = EmptyStr
        /\ last' = [op |-> "skip", line |-> line]
    /\ UNCHANGED <<memory_collection, clock, conversation_history, callLog, turnLog, pc>>

\* One full pass: rephrase, build the context, generate, append to the
\* history, store the query and the answer.  An exception that leaves one
\* of the calls ends the process with a traceback.  (The embedder and the
\* store's upsert are taken to accept every write.)
Turn(lines, rephrases, statics, gens, maxTurns) ==
    /\ pc = "loop"
    /\ Len(turnLog) < maxTurns
    /\ \E line \in lines, ro \in rephrases, so \in statics, go \in gens :
       \E mo \in MemoryQuery(memory_collection, USER_ID, DEFAULT_TOP_K, "by_age") :
        LET query == strip(line)
            refined == rephrase_query(query, ro)
            recall == recall_memory(mo)
            search == search_docs(so)
            context == build_context(conversation_history, recall.ret, search.ret)
            gen == query_ollama(go)
            answer == gen.ret
        IN  /\ lower(query) \notin {<<"exit">>, <<"quit">>}
            /\ query /= EmptyStr
            /\ IF refined.raises \/ recall.raises \/ search.raises \/ gen.raises
               THEN /\ pc' = "crashed"
                    /\ last' = [op |-> "crash", query |-> query, recall |-> recall,
                                gen |-> IF go.broken THEN "broken" ELSE go.kind]
                    /\ UNCHANGED <<memory_collection, clock, conversation_history,
                                   callLog, turnLog>>
               ELSE /\ conversation_history' = Append(conversation_history, <<query, answer>>)
                    /\ memory_collection' =
                         add_memory(
                             add_memory(memory_collection, clock + 1, USER_ID, query, RoleUser),
                             clock + 2, USER_ID, answer, RoleAgent)
                    /\ clock' = clock + 2
                    /\ callLog' = callLog \o
                         <<[user_id |-> USER_ID, role |-> RoleUser, text |-> query],
                           [user_id |-> USER_ID, role |-> RoleAgent, text |-> answer]>>
                    /\ turnLog' = Append(turnLog, <<query, answer>>)
                    /\ last' = [op |-> "turn", query |-> query,
                                refined_query |-> refined.ret,
                                recall |-> recall,
                                short_term |-> ShortTerm(conversation_history),
                                context |-> context,
                                gen |-> IF go.broken THEN "broken" ELSE go.kind,
                                answer |-> answer]
                    /\ pc' = pc

Lines == {<<"a", " ">>, <<"a", " ", "b", " ", "a">>, <<" ">>, <<"Quit">>}

PostRaise == [kind |-> "raise", ok |-> FALSE, has_response |-> FALSE, response |-> << >>]
PostResponse(ok, has, r) ==
    [kind |-> "response", ok |-> ok, has_response |-> has, response |-> r]

Rephrases == {PostRaise, PostResponse(TRUE, TRUE, <<" ", "b">>)}

StaticRaise == [raised |-> TRUE, error |-> <<"timeout">>, documents |-> << >>, metadatas |-> << >>]
StaticResult(docs, metas) ==
    [raised |-> FALSE, error |-> << >>, documents |-> docs, metadatas |-> metas]

Statics == {StaticRaise, StaticResult(<< <<"d">> >>, << MetaSource(<<"a.md">>) >>)}

GenRaise == [kind |-> "raise", code |-> "", msg |-> <<"timeout">>, lines |-> << >>, broken |-> FALSE]
GenStatus(code) == [kind |-> "status", code |-> code, msg |-> << >>, lines |-> << >>, broken |-> FALSE]
GenStream(lines) == [kind |-> "stream", code |-> "200", msg |-> << >>, lines |-> lines, broken |-> FALSE]
GenBroken(lines) == [kind |-> "stream", code |-> "200", msg |-> <<"timeout">>, lines |-> lines, broken |-> TRUE]

Gens == {GenRaise, GenStatus("500"), GenStream(<< >>),
         GenStream(<<LineToken(<<"a">>), LineGarbage, LineEmpty, LineNoKey, LineToken(<<" ">>)>>),
         GenBroken(<<LineToken(<<"a">>)>>)}

Next ==
    \/ Turn(Lines, Rephrases, Statics, Gens, MaxTurns)
    \/ Skip(Lines)
    \/ Exit(Lines)

Spec == Init /\ [][Next]_vars

\* A longer session with fewer kinds of input: the history outgrows the
\* short-term window
HistoryLines == {<<"a">>, <<"b">>}
HistoryGens == {GenStream(<<LineToken(<<"a">>)>>), GenStatus("500")}

NextHistory ==
    Turn(HistoryLines, {PostRaise}, {StaticRaise}, HistoryGens, MaxHistory)

SpecHistory == InitMem /\ [][NextHistory]_vars

-----------------------------------------------------------------------------
(* search_docs and rephrase_query, called with any arguments               *)

\* The strings of at most n pieces over an alphabet
StringsUpTo(alphabet, n) == UNION {[1..k -> alphabet] : k \in 0..n}

DocTexts == {<<"d">>, <<"e">>}
Metas == {MetaNone, MetaEmpty, MetaSource(<<"a.md">>)}

\* What static_collection.query may give back: at most n_results =
\* MAX_CONTEXT_DOCS documents, and either no metadatas or one per document
StaticOutcomes ==
    {StaticRaise}
    \cup {StaticResult(docs, metas) :
            docs \in {d \in StringsUpTo(DocTexts, MaxDocs) : Len(d) <= MAX_CONTEXT_DOCS},
            metas \in StringsUpTo(Metas, MaxDocs)}

SearchDocs ==
    /\ \E o \in StaticOutcomes :
        /\ o.metadatas = << >> \/ Len(o.metadatas) = Len(o.documents)
        /\ last' = [op |-> "search_docs", outcome |-> o, result |-> search_docs(o)]
    /\ UNCHANGED <<memory_collection, clock, conversation_history, callLog, turnLog, pc>>

Prompts == StringsUpTo({"a", " "}, MaxPromptLen)

PostOutcomes ==
    {PostRaise, PostResponse(FALSE, FALSE, << >>), PostResponse(TRUE, FALSE, << >>),
     PostResponse(TRUE, TRUE, <<" ", "b">>)}

RephraseQuery ==
    /\ \E prompt \in Prompts, o \in PostOutcomes :
        last' = [op |-> "rephrase_query", prompt |-> prompt, outcome |-> o,
                 result |-> rephrase_query(prompt, o)]
    /\ UNCHANGED <<memory_collection, clock, conversation_history, callLog, turnLog, pc>>

NextFn == SearchDocs \/ RephraseQuery

SpecFn == InitMem /\ [][NextFn]_vars

-----------------------------------------------------------------------------
(* Properties of the memory interface                                      *)

Range(f) == {f[i] : i \in DOMAIN f}

\* The records holding the triple x = (user_id, role, text)
RecordsOf(x) ==
    {i \in 1..Len(memory_collection) :
        /\ memory_collection[i].metadata.user_id = x.user_id
        /\ memory_collection[i].metadata.role = x.role
        /\ memory_collection[i].document = x.text}

StoredTwice(x) ==
    \E i, j \in 1..Len(callLog) : i < j /\ callLog[i] = x /\ callLog[j] = x

\* C1: once add_memory has been called twice with the same (user_id, role,
\* text), whatever other calls came between, the store holds exactly one
\* record for that triple after the second call, under the id both calls
\* compute; no triple ever has two records and no id is held twice.
C1_IdentityDeterminism ==
    /\ \A x \in Range(callLog) :
        /\ Cardinality(RecordsOf(x)) <= 1
        /\ (StoredTwice(x) /\ callLog[Len(callLog)] = x) =>
              /\ Cardinality(RecordsOf(x)) = 1
              /\ \A i \in RecordsOf(x) :
                    memory_collection[i].id = mem_id(x.user_id, x.role, x.text)
    /\ \A i, j \in 1..Len(memory_collection) :
          memory_collection[i].id = memory_collection[j].id => i = j

\* A triple was stored, another one was stored after it, and the first was
\* stored again: one record for it, two records in all.
C1_Witness ==
    /\ Len(callLog) = 3
    /\ callLog[1] = callLog[3]
    /\ callLog[2] /= callLog[1]
    /\ Cardinality(RecordsOf(callLog[3])) = 1
    /\ Len(memory_collection) = 2

\* C2: every text recall_memory(A, q, top_k) reads from its query is the
\* document of a record stored with user_id A, written by an
\* add_memory(A, ...) call; a text only other users wrote is never in it.
C2_UserIsolation ==
    last.op = "recall_memory" =>
        \A k \in 1..Len(last.result.docs) :
            /\ \E i \in 1..Len(memory_collection) :
                  /\ memory_collection[i].metadata.user_id = last.user_id
                  /\ memory_collection[i].document = last.result.docs[k]
            /\ \E c \in Range(callLog) :
                  c.user_id = last.user_id /\ c.text = last.result.docs[k]

\* A recall that asked for more than its user has, with another user's
\* record in the store: the filter, not top_k, kept that record out.
C2_Witness ==
    /\ last.op = "recall_memory"
    /\ ~last.result.failed
    /\ Len(last.result.docs) >= 1
    /\ Len(last.result.docs) < last.top_k
    /\ \E i \in 1..Len(memory_collection) :
          /\ memory_collection[i].metadata.user_id /= last.user_id
          /\ \A k \in 1..Len(last.result.docs) :
                memory_collection[i].document /= last.result.docs[k]

\* C5: every text ever stored for a (user_id, role) is still the document of
\* a record of that user and role: no add_memory call replaces a record's
\* text by another text.
C5_AppendOnly ==
    \A c \in Range(callLog) : RecordsOf(c) /= {}

-----------------------------------------------------------------------------
(* Properties of the conversation loop                                     *)

\* C3: when build_context runs after n > MEMORY_SIZE completed turns, its
\* short-term section is the turns n-MEMORY_SIZE+1 .. n, each as
\* "User: <query>\nAgent: <answer>", oldest first, and nothing else; the
\* section over the history as it stands after a turn is the same window.
C3_ShortTermWindow ==
    LET Window(n) ==
            Join(<<"\n">>,
                 [i \in 1..MEMORY_SIZE |->
                     <<"User: ">> \o turnLog[n - MEMORY_SIZE + i][1]
                         \o <<"\nAgent: ">> \o turnLog[n - MEMORY_SIZE + i][2]])
    IN  /\ (last.op = "turn" /\ Len(turnLog) - 1 > MEMORY_SIZE) =>
              /\ last.short_term = Window(Len(turnLog) - 1)
              /\ SubSeq(last.context, 1, 1 + Len(last.short_term))
                    = <<"Short-term:\n">> \o Window(Len(turnLog) - 1)
        /\ Len(turnLog) > MEMORY_SIZE =>
              ShortTerm(conversation_history) = Window(Len(turnLog))

\* The fifth turn has run, and the turn that fell out of the window differs
\* from the one that entered it.
C3_Witness ==
    /\ last.op = "turn"
    /\ Len(turnLog) = MEMORY_SIZE + 2
    /\ turnLog[1] /= turnLog[MEMORY_SIZE + 1]

\* The process began with an empty Memory Store: every write the clock has
\* counted is one of this process's calls
StartedEmpty == clock = Len(callLog)

HasRecord(user_id, role, text) ==
    \E i \in 1..Len(memory_collection) :
        /\ memory_collection[i].metadata.user_id = user_id
        /\ memory_collection[i].metadata.role = role
        /\ memory_collection[i].document = text

C7_RecallDegradation ==
    (last.op \in {"turn", "crash"} /\ last.recall.failed) =>
        /\ last.op = "turn"
        /\ pc = "loop"
        /\ ~last.recall.raises
        /\ last.recall.ret = EmptyStr
        /\ \E docs \in {search_docs(so).ret : so \in Statics} :
              last.context = build_context(SubSeq(conversation_history, 1,
                                                  Len(conversation_history) - 1),
                                           EmptyStr, docs)
        /\ turnLog[Len(turnLog)] = <<last.query, last.answer>>

\* A turn whose recall failed and whose generation answered from the stream.
C7_Witness ==
    /\ last.op = "turn"
    /\ last.recall.failed
    /\ last.gen = "stream"
    /\ last.answer = <<"a">>

GenerationFailed == last.gen \in {"status", "raise", "broken"}

\* C8: when generation fails (a status other than 200, the request raising,
\* the stream breaking), the answer of the turn is query_ollama's error
\* string, the loop goes on, the (query, answer) pair is the last entry of
\* conversation_history, and the store holds the query as a user record and
\* the error string as an agent record.
C8_GenerationFailureRecorded ==
    (last.op \in {"turn", "crash"} /\ GenerationFailed) =>
        /\ last.op = "turn"
        /\ pc = "loop"
        /\ last.gen = "status" => last.answer = <<"[ERROR] Ollama returned ", "500">>
        /\ last.gen \in {"raise", "broken"} =>
              last.answer = <<"[ERROR] Ollama request failed: ", "timeout">>
        /\ conversation_history[Len(conversation_history)] = <<last.query, last.answer>>
        /\ HasRecord(USER_ID, RoleUser, last.query)
        /\ HasRecord(USER_ID, RoleAgent, last.answer)

\* A turn whose request raised, recorded in the history and in the store.
C8_Witness ==
    /\ last.op = "turn"
    /\ last.gen = "raise"
    /\ Len(conversation_history) >= 1
    /\ HasRecord(USER_ID, RoleAgent, <<"[ERROR] Ollama request failed: ", "timeout">>)

\* C10: every text the loop passes to add_memory is non-empty.
C10_StoredTextsNonEmpty ==
    \A c \in Range(callLog) : c.text /= EmptyStr

-----------------------------------------------------------------------------
(* Properties of search_docs and rephrase_query                            *)

\* C6: for every result list, search_docs returns one block per match in
\* rank order, "[Source: <source>]\n<text>", joined by a blank line, where
\* <source> is the match's metadata source and "unknown" when the match has
\* no metadata or no source key.
C6_DocumentFormatting ==
    (last.op = "search_docs" /\ ~last.outcome.raised) =>
        LET docs == last.outcome.documents
            metas == last.outcome.metadatas
            SourceOf(i) ==
                IF metas = << >> THEN <<"unknown">>
                ELSE IF metas[i].none \/ ~metas[i].has_source THEN <<"unknown">>
                ELSE metas[i].source
        IN last.result.ret =
             Join(<<"\n\n">>,
                  [i \in 1..Len(docs) |->
                      <<"[Source: ">> \o SourceOf(i) \o <<"]\n">> \o docs[i]])

\* The whitespace-delimited tokens of a string: the places where one starts
TokenStarts(s) ==
    {i \in 1..Len(s) : s[i] \notin Whitespace /\ (i = 1 \/ s[i - 1] \in Whitespace)}

\* C9: for a prompt of fewer than 3 whitespace-delimited tokens,
\* rephrase_query returns the prompt as it is and posts no request.
C9_RephraseShortCircuit ==
    (last.op = "rephrase_query" /\ Cardinality(TokenStarts(last.prompt)) < 3) =>
        /\ last.result.ret = last.prompt
        /\ ~last.result.posted

\* "a a": two tokens in three characters, with a response on offer.
C9_Witness ==
    /\ last.op = "rephrase_query"
    /\ last.prompt = <<"a", " ", "a">>
    /\ last.outcome = PostResponse(TRUE, TRUE, <<" ", "b">>)
    /\ ~last.result.posted

=============================================================================
